---- MODULE Spec2Model ----
(***************************************************************************)
(* State-machine model of src/src/app/page.tsx (ChildrenGames): the screen *)
(* controller, the level-progression coordinator (autoAdvanceLevel), the   *)
(* six game variants and the single-shot timers (setTimeout) they use.     *)
(*                                                                         *)
(* React semantics kept by the model:                                      *)
(*  - an event handler reads the state of the current render;              *)
(*  - a timer callback reads the values its closure captured when the      *)
(*    timer was scheduled, and only a functional update (prev => ...)      *)
(*    reads the state current when it fires;                               *)
(*  - the setState calls of one handler are applied in order, as a batch.  *)
(* Time is counted in units of 100 ms; a timer record carries what its     *)
(* closure captured and the time left until it fires.                      *)
(***************************************************************************)
EXTENDS Integers, Sequences, FiniteSets, TLC

VARIABLES
    currentScreen,            \* 'menu' | 'game'
    gameState,                \* {type, level, maxLevel, score, attempts}
    memoryCards,              \* sequence of [emoji, flipped, matched]
    selectedCards,            \* sequence of card positions (1-based)
    selectedPair,             \* [image, word], 0 = null
    pairedItems,              \* set of paired images
    currentFindPairLevel,
    currentPatternIndex,      \* 0-based, as in the source
    patternFeedback,          \* "null" | "correct" | "wrong"
    currentDifferentIndex,    \* 0-based
    differentFeedback,        \* "null" | "correct" | "wrong"
    currentSequenceIndex,     \* 0-based
    sequenceItems,            \* sequence of remaining items
    simonSequence,            \* sequence of colour ids 0..3
    playerSequence,
    isShowingSequence,
    activeSimonButton,        \* colour id, -1 = null
    showLevelCompleteModal,
    showWinModal,
    soundEnabled,             \* module-level flag read by playSound
    timers,                   \* pending setTimeout callbacks, in scheduling order
    starts,                   \* number of startGame calls so far (bounded)
    lastOp                    \* the handler or callback that ran last

memVars     == <<memoryCards, selectedCards>>
pairVars    == <<selectedPair, pairedItems, currentFindPairLevel>>
patternVars == <<currentPatternIndex, patternFeedback>>
diffVars    == <<currentDifferentIndex, differentFeedback>>
seqVars     == <<currentSequenceIndex, sequenceItems>>
simonVars   == <<simonSequence, playerSequence, isShowingSequence, activeSimonButton>>
modalVars   == <<showLevelCompleteModal, showWinModal>>
puzzleVars  == <<memVars, pairVars, patternVars, diffVars, seqVars, simonVars>>
vars        == <<currentScreen, gameState, puzzleVars, modalVars, soundEnabled,
                 timers, starts, lastOp>>

----------------------------------------------------------------------------
(* Bounds of the exploration *)

\* startGame calls (from the menu or through restartGame) in one behaviour
MaxStarts == 2
\* the player gives game input only while the session level is at most this
MaxPlayLevel == 2
\* outcomes considered for each random shuffle (sort(() => Math.random() - 0.5))
ShuffleChoices == 2
\* colour ids Math.random() is taken to draw for a simon sequence: 0..SimonDraws-1
SimonDraws == 2
\* the player repeats colour sequences of at most this length
MaxSimonLevel == 1
\* second-card flips counted before the player stops flipping
MaxAttempts == 2
\* the player gives game input only while fewer timers than this are pending
MaxPending == 2
\* the player gives game input only while the score is below this
MaxScore == 30
\* the player acts at instants at most this long (x 100 ms) after the previous
\* instant at which something happened, or when a timer is due
TickStep == 5

----------------------------------------------------------------------------
(* Program constants *)

GameTypes == {"memory", "find-pair", "pattern", "different", "sequence", "simon"}

MAX_LEVELS(t) ==
    CASE t = "memory"    -> 5
      [] t = "find-pair" -> 3
      [] t = "pattern"   -> 5
      [] t = "different" -> 5
      [] t = "sequence"  -> 4
      [] t = "simon"     -> 10

\* setTimeout delays, in units of 100 ms
AdvanceDelay      == 15
MatchDelay        == 5
NoMatchDelay      == 10
AnswerDelay       == 10
SimonInitDelay    == 5
SimonFirstDelay   == 5
SimonOffDelay     == 5
SimonGapDelay     == 3
SimonWrongDelay   == 10
SimonAdvanceDelay == 10

NumSimonColors == 4
ScoreStep == 10

DefaultGameState ==
    [type |-> "null", level |-> 1, maxLevel |-> 1, score |-> 0, attempts |-> 0]

Min(a, b) == IF a < b THEN a ELSE b

----------------------------------------------------------------------------
(* Timers *)

\* A pending timer: kind names the callback; due is the time left; delay the
\* delay it was scheduled with; the other fields are what the closure holds.
BlankTimer ==
    [kind |-> "none", due |-> 0, delay |-> 0,
     type |-> "null", level |-> 0, maxLevel |-> 0,
     cards |-> <<>>, first |-> 0, second |-> 0,
     seq |-> <<>>, index |-> 0, isRef |-> FALSE, session |-> 0]

\* setTimeout(callback, delay) called by op; session is the number of the
\* session (startGame call) whose input led, directly or through other timers,
\* to this call
NewTimer(kind, delay, op) ==
    [BlankTimer EXCEPT !.kind = kind, !.due = delay, !.delay = delay,
                       !.session = op.session]

\* the closure of autoAdvanceLevel: gameState.type, .level, .maxLevel of the render
WithGame(t, gs) == [t EXCEPT !.type = gs.type, !.level = gs.level, !.maxLevel = gs.maxLevel]

RemoveAt(s, i) == [j \in 1..(Len(s) - 1) |-> IF j < i THEN s[j] ELSE s[j + 1]]

\* showSequenceTimeoutRef.current = setTimeout(...): the ref names the new timer only
SetRef(ts, t) == Append([j \in 1..Len(ts) |-> [ts[j] EXCEPT !.isRef = FALSE]],
                        [t EXCEPT !.isRef = TRUE])

\* clearTimeout(showSequenceTimeoutRef.current)
ClearRef(ts) == SelectSeq(ts, LAMBDA t : ~t.isRef)

\* A timer fires when its time has come; of two timers set at the same instant
\* with the same delay the one set first fires first.
CanFire(i) ==
    /\ i \in 1..Len(timers)
    /\ timers[i].due = 0
    /\ \A j \in 1..(i - 1) :
          ~(timers[j].due = 0 /\ timers[j].delay = timers[i].delay)

\* lastOp after a handler of the current render, and after the callback of
\* timer i: its name, the type and level its closure holds, its session, what
\* the coordinator did in it ("none" when it was not invoked), and the level
\* at which the coordinator last declared this session won (0: it has not)
Op(name) ==
    [op |-> name, type |-> gameState.type, level |-> gameState.level,
     session |-> starts, coord |-> "none", won |-> lastOp.won]

TimerOp(name, i) ==
    [op |-> name, type |-> timers[i].type, level |-> timers[i].level,
     session |-> timers[i].session, coord |-> "none", won |-> lastOp.won]


----------------------------------------------------------------------------
(* Random outcomes *)

Rotate(s, k) == [i \in 1..Len(s) |-> s[((i - 1 + k) % Len(s)) + 1]]

\* s[1], s[h+1], s[2], s[h+2], ... for a sequence of even length 2h
Interleave(s) ==
    [i \in 1..Len(s) |->
        IF i % 2 = 1 THEN s[(i + 1) \div 2] ELSE s[(Len(s) \div 2) + (i \div 2)]]

Permute(s, r) ==
    IF r % 2 = 0 THEN Rotate(s, r \div 2) ELSE Rotate(Interleave(s), r \div 2)

\* .sort(() => Math.random() - 0.5): one of the orders considered
Shuffled(s) == IF Len(s) = 0 THEN {s} ELSE {Permute(s, r) : r \in 0..(ShuffleChoices - 1)}

\* variant: the sequence of a level has one colour more than the level
SimonSequencesLonger(level) ==
    [1..(level + 1) -> 0..(Min(SimonDraws, NumSimonColors) - 1)]

\* Array.from({length: level}, () => Math.floor(Math.random() * 4))
SimonSequences(level) == [1..level -> 0..(Min(SimonDraws, NumSimonColors) - 1)]

----------------------------------------------------------------------------
(* Level-progression coordinator *)

\* variant: the coordinator takes every completed level as the last one
autoAdvanceLevelWin(gs, ts, op) ==
    /\ showWinModal' = TRUE
    /\ UNCHANGED showLevelCompleteModal
    /\ timers' = ts
    /\ lastOp' = [op EXCEPT !.coord = "win", !.won = gameState.level]

\* autoAdvanceLevel, lines 130-167; gs is the gameState its closure captured,
\* op the handler or callback that calls it
autoAdvanceLevel(gs, ts, op) ==
    IF gs.level < gs.maxLevel
    THEN /\ showLevelCompleteModal' = TRUE
         /\ UNCHANGED showWinModal
         /\ timers' = Append(ts, WithGame(NewTimer("advance", AdvanceDelay, op), gs))
         /\ lastOp' = [op EXCEPT !.coord = "advance"]
    ELSE /\ showWinModal' = TRUE
         /\ UNCHANGED showLevelCompleteModal
         /\ timers' = ts
         /\ lastOp' = [op EXCEPT !.coord = "win", !.won = gameState.level]

\* variant: the init function resets the score on every level change
SetLevelResetScore(gs, t, level) ==
    [gs EXCEPT !.level = level, !.maxLevel = MAX_LEVELS(t), !.score = 0]

\* variant: the init function sets the level and leaves maxLevel as it was
SetLevelOnly(gs, t, level) ==
    [gs EXCEPT !.level = level]

\* variant: the init function resets the attempts on every level change
SetLevelResetAttempts(gs, t, level) ==
    [gs EXCEPT !.level = level, !.maxLevel = MAX_LEVELS(t), !.attempts = 0]

\* setGameState(prev => ({ ...prev, level, maxLevel: MAX_LEVELS.<type> }))
SetLevelKeepScore(gs, t, level) ==
    [gs EXCEPT !.level = level, !.maxLevel = MAX_LEVELS(t)]

InitGameState(gs, t, level) ==
    IF t = "sequence" /\ level \notin 1..4
    THEN gs                       \* allSequences[level - 1] is undefined: init throws
    ELSE SetLevelKeepScore(gs, t, level)

----------------------------------------------------------------------------
(* Memory game *)

gridSizeMap == <<4, 6, 12, 16, 20>>

\* gridSizeMap[level - 1]; undefined gives an empty slice
gridSize(level) == IF level \in 1..Len(gridSizeMap) THEN gridSizeMap[level] ELSE 0

\* [...emojis, ...emojis] with emojis = gameEmojis.memory.slice(0, gridSize / 2);
\* an emoji is modelled by its position in gameEmojis.memory
NewCards(level) ==
    [i \in 1..gridSize(level) |->
        [emoji |-> ((i - 1) % (gridSize(level) \div 2)) + 1,
         flipped |-> FALSE, matched |-> FALSE]]

initMemoryGameAtLevel(level) ==
    /\ memoryCards' \in Shuffled(NewCards(level))
    /\ selectedCards' = <<>>

\* variant: with the sound off the click on a card is ignored
handleCardClickMuted(index) ==
    /\ currentScreen = "game"
    /\ gameState.type = "memory"
    /\ index \in 1..Len(memoryCards)
    /\ lastOp' = Op("handleCardClick")
    /\ UNCHANGED <<currentScreen, pairVars, patternVars, diffVars, seqVars, simonVars,
                   modalVars, soundEnabled, starts>>
    /\ IF ~soundEnabled \/ Len(selectedCards) = 2 \/ memoryCards[index].matched \/ memoryCards[index].flipped
       THEN UNCHANGED <<gameState, memVars, timers>>
       ELSE LET newCards    == [memoryCards EXCEPT ![index].flipped = TRUE]
                newSelected == Append(selectedCards, index)
            IN /\ memoryCards' = newCards
               /\ selectedCards' = newSelected
               /\ IF Len(newSelected) = 2
                  THEN /\ gameState' = [gameState EXCEPT !.attempts = @ + 1]
                       /\ timers' = Append(timers,
                            [WithGame(NewTimer(
                                IF newCards[newSelected[1]].emoji = newCards[newSelected[2]].emoji
                                THEN "match" ELSE "noMatch",
                                IF newCards[newSelected[1]].emoji = newCards[newSelected[2]].emoji
                                THEN MatchDelay ELSE NoMatchDelay,
                                Op("handleCardClick")), gameState)
                             EXCEPT !.cards = newCards,
                                    !.first = newSelected[1],
                                    !.second = newSelected[2]])
                  ELSE UNCHANGED <<gameState, timers>>

\* variant: the flip of a second card is not counted as an attempt
handleCardClickNoCount(index) ==
    /\ currentScreen = "game"
    /\ gameState.type = "memory"
    /\ index \in 1..Len(memoryCards)
    /\ lastOp' = Op("handleCardClick")
    /\ UNCHANGED <<currentScreen, pairVars, patternVars, diffVars, seqVars, simonVars,
                   modalVars, soundEnabled, starts>>
    /\ IF Len(selectedCards) = 2 \/ memoryCards[index].matched \/ memoryCards[index].flipped
       THEN UNCHANGED <<gameState, memVars, timers>>
       ELSE LET newCards    == [memoryCards EXCEPT ![index].flipped = TRUE]
                newSelected == Append(selectedCards, index)
            IN /\ memoryCards' = newCards
               /\ selectedCards' = newSelected
               /\ IF Len(newSelected) = 2
                  THEN /\ UNCHANGED gameState
                       /\ timers' = Append(timers,
                            [WithGame(NewTimer(
                                IF newCards[newSelected[1]].emoji = newCards[newSelected[2]].emoji
                                THEN "match" ELSE "noMatch",
                                IF newCards[newSelected[1]].emoji = newCards[newSelected[2]].emoji
                                THEN MatchDelay ELSE NoMatchDelay,
                                Op("handleCardClick")), gameState)
                             EXCEPT !.cards = newCards,
                                    !.first = newSelected[1],
                                    !.second = newSelected[2]])
                  ELSE UNCHANGED <<gameState, timers>>

\* handleCardClick, lines 190-235 (index is 1-based here)
handleCardClick(index) ==
    /\ currentScreen = "game"
    /\ gameState.type = "memory"
    /\ index \in 1..Len(memoryCards)
    /\ lastOp' = Op("handleCardClick")
    /\ UNCHANGED <<currentScreen, pairVars, patternVars, diffVars, seqVars, simonVars,
                   modalVars, soundEnabled, starts>>
    /\ IF Len(selectedCards) = 2 \/ memoryCards[index].matched \/ memoryCards[index].flipped
       THEN UNCHANGED <<gameState, memVars, timers>>
       ELSE LET newCards    == [memoryCards EXCEPT ![index].flipped = TRUE]
                newSelected == Append(selectedCards, index)
            IN /\ memoryCards' = newCards
               /\ selectedCards' = newSelected
               /\ IF Len(newSelected) = 2
                  THEN /\ gameState' = [gameState EXCEPT !.attempts = @ + 1]
                       /\ timers' = Append(timers,
                            [WithGame(NewTimer(
                                IF newCards[newSelected[1]].emoji = newCards[newSelected[2]].emoji
                                THEN "match" ELSE "noMatch",
                                IF newCards[newSelected[1]].emoji = newCards[newSelected[2]].emoji
                                THEN MatchDelay ELSE NoMatchDelay,
                                Op("handleCardClick")), gameState)
                             EXCEPT !.cards = newCards,
                                    !.first = newSelected[1],
                                    !.second = newSelected[2]])
                  ELSE UNCHANGED <<gameState, timers>>

\* variant: the callback marks only the first of the two cards as matched
FireMatchFirstOnly(i) ==
    /\ CanFire(i)
    /\ timers[i].kind = "match"
    /\ LET t == timers[i]
           updatedCards == [t.cards EXCEPT ![t.first].matched = TRUE]
       IN /\ memoryCards' = updatedCards
          /\ selectedCards' = <<>>
          /\ gameState' = [gameState EXCEPT !.score = @ + ScoreStep]
          /\ IF \A k \in 1..Len(updatedCards) : updatedCards[k].matched
             THEN autoAdvanceLevel(t, RemoveAt(timers, i), TimerOp("matchTimer", i))
             ELSE /\ timers' = RemoveAt(timers, i)
                  /\ lastOp' = TimerOp("matchTimer", i)
                  /\ UNCHANGED modalVars
    /\ UNCHANGED <<currentScreen, pairVars, patternVars, diffVars, seqVars, simonVars,
                   soundEnabled, starts>>

\* the "Match found" callback, lines 208-222
FireMatch(i) ==
    /\ CanFire(i)
    /\ timers[i].kind = "match"
    /\ LET t == timers[i]
           updatedCards == [t.cards EXCEPT ![t.first].matched = TRUE,
                                           ![t.second].matched = TRUE]
       IN /\ memoryCards' = updatedCards
          /\ selectedCards' = <<>>
          /\ gameState' = [gameState EXCEPT !.score = @ + ScoreStep]
          /\ IF \A k \in 1..Len(updatedCards) : updatedCards[k].matched
             THEN autoAdvanceLevel(t, RemoveAt(timers, i), TimerOp("matchTimer", i))
             ELSE /\ timers' = RemoveAt(timers, i)
                  /\ lastOp' = TimerOp("matchTimer", i)
                  /\ UNCHANGED modalVars
    /\ UNCHANGED <<currentScreen, pairVars, patternVars, diffVars, seqVars, simonVars,
                   soundEnabled, starts>>

\* variant: the callback turns only the first of the two cards face down
FireNoMatchFirstOnly(i) ==
    /\ CanFire(i)
    /\ timers[i].kind = "noMatch"
    /\ LET t == timers[i]
       IN /\ memoryCards' = [t.cards EXCEPT ![t.first].flipped = FALSE]
          /\ selectedCards' = <<>>
    /\ timers' = RemoveAt(timers, i)
    /\ lastOp' = TimerOp("noMatchTimer", i)
    /\ UNCHANGED <<currentScreen, gameState, pairVars, patternVars, diffVars, seqVars,
                   simonVars, modalVars, soundEnabled, starts>>

\* the "No match" callback, lines 225-232
FireNoMatch(i) ==
    /\ CanFire(i)
    /\ timers[i].kind = "noMatch"
    /\ LET t == timers[i]
       IN /\ memoryCards' = [t.cards EXCEPT ![t.first].flipped = FALSE,
                                            ![t.second].flipped = FALSE]
          /\ selectedCards' = <<>>
    /\ timers' = RemoveAt(timers, i)
    /\ lastOp' = TimerOp("noMatchTimer", i)
    /\ UNCHANGED <<currentScreen, gameState, pairVars, patternVars, diffVars, seqVars,
                   simonVars, modalVars, soundEnabled, starts>>

----------------------------------------------------------------------------
(* Pair-matching game: pair k of allPairs is image k and word k *)

NumPairs == 10

pairsCountMap == <<3, 5, 7>>

\* allPairs.slice(0, [3, 5, 7][level - 1]); slice(0, undefined) is the whole table
levelPairs(level) ==
    IF level \in 1..Len(pairsCountMap) THEN 1..pairsCountMap[level] ELSE 1..NumPairs

\* getFindPairsForLevel, lines 1298-1317: the pairs the screen offers
getFindPairsForLevel(level) ==
    IF level < 1 \/ level > 3 THEN 1..pairsCountMap[1] ELSE 1..pairsCountMap[level]

initFindPairGameAtLevel(level) ==
    /\ selectedPair' = [image |-> 0, word |-> 0]
    /\ pairedItems' = {}
    /\ currentFindPairLevel' = level

\* variant: the size is compared with pairsCount, as if read after the insertion
FindPairWonAfter(paired, level) ==
    /\ level \in 1..Len(pairsCountMap)
    /\ Cardinality(paired) = pairsCountMap[level]

\* pairedItems.size === pairsCount - 1, read before the insertion
FindPairWon(paired, level) ==
    /\ level \in 1..Len(pairsCountMap)
    /\ Cardinality(paired) = pairsCountMap[level] - 1

\* handleFindPairSelect, lines 263-304; kind is "image" or "word"
handleFindPairSelect(kind, value) ==
    /\ currentScreen = "game"
    /\ gameState.type = "find-pair"
    /\ value \in getFindPairsForLevel(currentFindPairLevel)
    /\ value \notin pairedItems                \* a paired item's button is disabled
    /\ UNCHANGED <<currentScreen, memVars, patternVars, diffVars, seqVars, simonVars,
                   currentFindPairLevel, soundEnabled, starts>>
    /\ LET newSelected == [selectedPair EXCEPT ![kind] = value]
           correct == /\ newSelected.image = newSelected.word
                      /\ newSelected.image \in levelPairs(currentFindPairLevel)
       IN IF newSelected.image # 0 /\ newSelected.word # 0
          THEN /\ selectedPair' = [image |-> 0, word |-> 0]
               /\ IF correct /\ newSelected.image \notin pairedItems
                  THEN /\ pairedItems' = pairedItems \cup {newSelected.image}
                       /\ gameState' = [gameState EXCEPT !.score = @ + ScoreStep]
                       /\ IF FindPairWon(pairedItems, currentFindPairLevel)
                          THEN autoAdvanceLevel(gameState, timers,
                                                Op("handleFindPairSelect"))
                          ELSE /\ lastOp' = Op("handleFindPairSelect")
                               /\ UNCHANGED <<modalVars, timers>>
                  ELSE /\ lastOp' = Op("handleFindPairSelect")
                       /\ UNCHANGED <<pairedItems, gameState, modalVars, timers>>
          ELSE /\ selectedPair' = newSelected
               /\ lastOp' = Op("handleFindPairSelect")
               /\ UNCHANGED <<pairedItems, gameState, modalVars, timers>>

----------------------------------------------------------------------------
(* Pattern game: a symbol of the tables is written as its name *)

\* allPatterns, lines 331-342: each row's answer and options (symbols by name)
allPatterns ==
    << [answer |-> "blue",     options |-> <<"blue", "yellow", "green">>],
       [answer |-> "moon",     options |-> <<"moon", "sun", "dizzy">>],
       [answer |-> "orange",   options |-> <<"orange", "lemon", "grapes">>],
       [answer |-> "down-tri", options |-> <<"down-tri", "diamond", "star">>],
       [answer |-> "6",        options |-> <<"6", "7", "8">>],
       [answer |-> "blue",     options |-> <<"blue", "yellow", "green">>],
       [answer |-> "F",        options |-> <<"F", "G", "H">>],
       [answer |-> "hibiscus", options |-> <<"hibiscus", "rose", "tulip">>],
       [answer |-> "12",       options |-> <<"12", "14", "16">>],
       [answer |-> "down",     options |-> <<"down", "right", "left">>] >>

Range(f) == {f[x] : x \in DOMAIN f}

\* allPatterns.slice(0, level).length
SliceLen(table, level) == Min(IF level < 0 THEN 0 ELSE level, Len(table))

\* variant: the lookup checks the level and not the index
getPatternsForLevelAnyIndex(level, index) ==
    IF level < 1 \/ level > 5 THEN 1 ELSE index + 1

\* getPatternsForLevel, lines 1319-1342: the table row (1-based) shown
getPatternsForLevel(level, index) ==
    IF level < 1 \/ level > 5 THEN 1
    ELSE IF index < 0 \/ index >= SliceLen(allPatterns, level) THEN 1
    ELSE index + 1

initPatternGameAtLevel(level) ==
    /\ currentPatternIndex' = 0
    /\ patternFeedback' = "null"

\* handlePatternAnswer, lines 330-364; option is one of the rendered row's options
handlePatternAnswer(option) ==
    /\ currentScreen = "game"
    /\ gameState.type = "pattern"
    /\ patternFeedback = "null"               \* disabled={patternFeedback !== null}
    /\ option \in Range(allPatterns[getPatternsForLevel(gameState.level,
                                                        currentPatternIndex)].options)
    /\ lastOp' = Op("handlePatternAnswer")
    /\ UNCHANGED <<currentScreen, memVars, pairVars, diffVars, seqVars, simonVars,
                   modalVars, soundEnabled, starts, currentPatternIndex>>
    /\ IF currentPatternIndex >= SliceLen(allPatterns, gameState.level)
       THEN \* currentPattern is undefined: reading .answer throws
            UNCHANGED <<gameState, patternFeedback, timers>>
       ELSE LET correct == option = allPatterns[currentPatternIndex + 1].answer
            IN /\ patternFeedback' = IF correct THEN "correct" ELSE "wrong"
               /\ gameState' = IF correct
                               THEN [gameState EXCEPT !.score = @ + ScoreStep]
                               ELSE gameState
               /\ timers' = Append(timers,
                     [WithGame(NewTimer("pattern", AnswerDelay,
                                        Op("handlePatternAnswer")), gameState)
                      EXCEPT !.index = currentPatternIndex])

\* the callback of lines 355-363
FirePattern(i) ==
    /\ CanFire(i)
    /\ timers[i].kind = "pattern"
    /\ LET t == timers[i]
       IN IF t.index < SliceLen(allPatterns, t.level) - 1
          THEN /\ currentPatternIndex' = currentPatternIndex + 1
               /\ patternFeedback' = "null"
               /\ timers' = RemoveAt(timers, i)
               /\ lastOp' = TimerOp("patternTimer", i)
               /\ UNCHANGED modalVars
          ELSE /\ autoAdvanceLevel(t, RemoveAt(timers, i), TimerOp("patternTimer", i))
               /\ UNCHANGED patternVars
    /\ UNCHANGED <<currentScreen, gameState, memVars, pairVars, diffVars, seqVars,
                   simonVars, soundEnabled, starts>>

----------------------------------------------------------------------------
(* Odd-one-out game *)

\* allLevels, lines 388-399: number of items and 0-based position of the odd one
allLevels ==
    << [n |-> 5, different |-> 3], [n |-> 5, different |-> 2],
       [n |-> 5, different |-> 4], [n |-> 5, different |-> 2],
       [n |-> 5, different |-> 3], [n |-> 6, different |-> 4],
       [n |-> 6, different |-> 2], [n |-> 6, different |-> 5],
       [n |-> 6, different |-> 2], [n |-> 6, different |-> 4] >>

\* getDifferentForLevel, lines 1344-1367: the table row (1-based) shown
getDifferentForLevel(level, index) ==
    IF level < 1 \/ level > 5 THEN 1
    ELSE IF index < 0 \/ index >= SliceLen(allLevels, level) THEN 1
    ELSE index + 1

initDifferentGameAtLevel(level) ==
    /\ currentDifferentIndex' = 0
    /\ differentFeedback' = "null"

\* handleDifferentClick, lines 387-421; index is the 0-based item clicked
handleDifferentClick(index) ==
    /\ currentScreen = "game"
    /\ gameState.type = "different"
    /\ differentFeedback = "null"             \* disabled={differentFeedback !== null}
    /\ index \in 0..(allLevels[getDifferentForLevel(gameState.level,
                                                    currentDifferentIndex)].n - 1)
    /\ lastOp' = Op("handleDifferentClick")
    /\ UNCHANGED <<currentScreen, memVars, pairVars, patternVars, seqVars, simonVars,
                   modalVars, soundEnabled, starts, currentDifferentIndex>>
    /\ IF currentDifferentIndex >= SliceLen(allLevels, gameState.level)
       THEN \* currentLevel is undefined: reading .different throws
            UNCHANGED <<gameState, differentFeedback, timers>>
       ELSE LET correct == index = allLevels[currentDifferentIndex + 1].different
            IN /\ differentFeedback' = IF correct THEN "correct" ELSE "wrong"
               /\ gameState' = IF correct
                               THEN [gameState EXCEPT !.score = @ + ScoreStep]
                               ELSE gameState
               /\ timers' = Append(timers,
                     [WithGame(NewTimer("different", AnswerDelay,
                                        Op("handleDifferentClick")), gameState)
                      EXCEPT !.index = currentDifferentIndex])

\* the callback of lines 412-420
FireDifferent(i) ==
    /\ CanFire(i)
    /\ timers[i].kind = "different"
    /\ LET t == timers[i]
       IN IF t.index < SliceLen(allLevels, t.level) - 1
          THEN /\ currentDifferentIndex' = currentDifferentIndex + 1
               /\ differentFeedback' = "null"
               /\ timers' = RemoveAt(timers, i)
               /\ lastOp' = TimerOp("differentTimer", i)
               /\ UNCHANGED modalVars
          ELSE /\ autoAdvanceLevel(t, RemoveAt(timers, i), TimerOp("differentTimer", i))
               /\ UNCHANGED diffVars
    /\ UNCHANGED <<currentScreen, gameState, memVars, pairVars, patternVars, seqVars,
                   simonVars, soundEnabled, starts>>

----------------------------------------------------------------------------
(* Sequence-ordering game: item p of sequence s is the pair <<s, p>> *)

NumSequences == 4
SequenceLen == 4

\* allSequences[s - 1].items and .correctOrder (the same order in the source)
correctOrder(s) == [p \in 1..SequenceLen |-> <<s, p>>]

\* getSequenceForLevel, lines 1369-1386: the table row (1-based) shown
getSequenceForLevel(level, index) == IF level < 1 \/ level > 4 THEN 1 ELSE level

initSequenceGameAtLevel(level) ==
    IF level \in 1..NumSequences
    THEN /\ sequenceItems' \in Shuffled(correctOrder(level))
         /\ currentSequenceIndex' = 0
    ELSE UNCHANGED seqVars        \* firstSequence is undefined: reading .items throws

\* sequenceItems.filter(i => currentSequence.correctOrder.includes(i)).length
correctIndex(items, s) ==
    Cardinality({k \in 1..Len(items) : items[k] \in Range(correctOrder(s))})

\* handleSequenceClick, lines 439-471; item is one of the remaining items
handleSequenceClick(item) ==
    /\ currentScreen = "game"
    /\ gameState.type = "sequence"
    /\ item \in Range(sequenceItems)
    /\ UNCHANGED <<currentScreen, memVars, pairVars, patternVars, diffVars, simonVars,
                   soundEnabled, starts>>
    /\ LET s  == currentSequenceIndex + 1
           ci == correctIndex(sequenceItems, s)
           newItems == SelectSeq(sequenceItems, LAMBDA x : x # item)
       IN IF s \in 1..NumSequences /\ ci < SequenceLen /\ item = correctOrder(s)[ci + 1]
          THEN /\ gameState' = [gameState EXCEPT !.score = @ + ScoreStep]
               /\ IF Len(newItems) = 0
                  THEN IF currentSequenceIndex < NumSequences - 1
                       THEN /\ sequenceItems' \in Shuffled(correctOrder(s + 1))
                            /\ currentSequenceIndex' = currentSequenceIndex + 1
                            /\ lastOp' = Op("handleSequenceClick")
                            /\ UNCHANGED <<modalVars, timers>>
                       ELSE /\ sequenceItems' = newItems
                            /\ UNCHANGED currentSequenceIndex
                            /\ autoAdvanceLevel(gameState, timers,
                                                Op("handleSequenceClick"))
                  ELSE /\ sequenceItems' = newItems
                       /\ lastOp' = Op("handleSequenceClick")
                       /\ UNCHANGED <<currentSequenceIndex, modalVars, timers>>
          ELSE /\ lastOp' = Op("handleSequenceClick")
               /\ UNCHANGED <<gameState, seqVars, modalVars, timers>>

----------------------------------------------------------------------------
(* Colour-repeat (simon) game *)

\* initSimonGameAtLevel, lines 474-487
initSimonGameAtLevel(level, ts, op) ==
    \E newSequence \in SimonSequences(level) :
        /\ simonSequence' = newSequence
        /\ playerSequence' = <<>>
        /\ isShowingSequence' = TRUE
        /\ activeSimonButton' = -1
        /\ timers' = Append(ts, [NewTimer("simonInit", SimonInitDelay, op)
                                 EXCEPT !.seq = newSequence])

\* showSimonSequence, lines 490-513: index = 0 and the first showNext timer
showSimonSequence(sequence, ts, op) ==
    timers' = SetRef(ts, [NewTimer("showNext", SimonFirstDelay, op)
                          EXCEPT !.seq = sequence, !.index = 0])

\* the callbacks of lines 482-484 and 532-534
FireShowSequence(i) ==
    /\ CanFire(i)
    /\ timers[i].kind \in {"simonInit", "simonWrong"}
    /\ showSimonSequence(timers[i].seq, RemoveAt(timers, i),
                         TimerOp("showSequenceTimer", i))
    /\ lastOp' = TimerOp("showSequenceTimer", i)
    /\ UNCHANGED <<currentScreen, gameState, puzzleVars, modalVars, soundEnabled, starts>>

\* showNext, lines 493-510, up to its inner setTimeout
FireShowNext(i) ==
    /\ CanFire(i)
    /\ timers[i].kind = "showNext"
    /\ LET t == timers[i]
       IN IF t.index < Len(t.seq)
          THEN /\ activeSimonButton' = t.seq[t.index + 1]
               /\ timers' = Append(RemoveAt(timers, i),
                                   [NewTimer("simonOff", SimonOffDelay,
                                             TimerOp("showNextTimer", i))
                                    EXCEPT !.seq = t.seq, !.index = t.index])
          ELSE /\ timers' = RemoveAt(timers, i)
               /\ UNCHANGED activeSimonButton
    /\ lastOp' = TimerOp("showNextTimer", i)
    /\ UNCHANGED <<currentScreen, gameState, memVars, pairVars, patternVars, diffVars,
                   seqVars, simonSequence, playerSequence, isShowingSequence,
                   modalVars, soundEnabled, starts>>

\* variant: the last callback of a playback leaves isShowingSequence as it is
FireSimonOffKeep(i) ==
    /\ CanFire(i)
    /\ timers[i].kind = "simonOff"
    /\ activeSimonButton' = -1
    /\ LET t == timers[i]
       IN IF t.index + 1 < Len(t.seq)
          THEN /\ timers' = SetRef(RemoveAt(timers, i),
                                   [NewTimer("showNext", SimonGapDelay,
                                             TimerOp("simonOffTimer", i))
                                    EXCEPT !.seq = t.seq, !.index = t.index + 1])
               /\ UNCHANGED isShowingSequence
          ELSE /\ timers' = RemoveAt(timers, i)
               /\ UNCHANGED isShowingSequence
    /\ lastOp' = TimerOp("simonOffTimer", i)
    /\ UNCHANGED <<currentScreen, gameState, memVars, pairVars, patternVars, diffVars,
                   seqVars, simonSequence, playerSequence, modalVars, soundEnabled, starts>>

\* the inner callback of showNext, lines 499-508
FireSimonOff(i) ==
    /\ CanFire(i)
    /\ timers[i].kind = "simonOff"
    /\ activeSimonButton' = -1
    /\ LET t == timers[i]
       IN IF t.index + 1 < Len(t.seq)
          THEN /\ timers' = SetRef(RemoveAt(timers, i),
                                   [NewTimer("showNext", SimonGapDelay,
                                             TimerOp("simonOffTimer", i))
                                    EXCEPT !.seq = t.seq, !.index = t.index + 1])
               /\ UNCHANGED isShowingSequence
          ELSE /\ timers' = RemoveAt(timers, i)
               /\ isShowingSequence' = FALSE
    /\ lastOp' = TimerOp("simonOffTimer", i)
    /\ UNCHANGED <<currentScreen, gameState, memVars, pairVars, patternVars, diffVars,
                   seqVars, simonSequence, playerSequence, modalVars, soundEnabled, starts>>

\* variant: the handler does not test isShowingSequence
handleSimonClickAlways(buttonId) ==
    /\ currentScreen = "game"
    /\ gameState.type = "simon"
    /\ buttonId \in 0..(NumSimonColors - 1)
    /\ lastOp' = Op("handleSimonClick")
    /\ UNCHANGED <<currentScreen, memVars, pairVars, patternVars, diffVars, seqVars,
                   simonSequence, activeSimonButton, modalVars, soundEnabled, starts>>
    /\ IF FALSE
       THEN UNCHANGED <<gameState, playerSequence, isShowingSequence, timers>>
       ELSE LET newPlayerSequence == Append(playerSequence, buttonId)
                currentIndex == Len(newPlayerSequence)
            IN IF currentIndex > Len(simonSequence)
                  \/ newPlayerSequence[currentIndex] # simonSequence[currentIndex]
               THEN /\ isShowingSequence' = TRUE
                    /\ playerSequence' = <<>>
                    /\ timers' = Append(timers,
                          [NewTimer("simonWrong", SimonWrongDelay, Op("handleSimonClick"))
                           EXCEPT !.seq = simonSequence])
                    /\ UNCHANGED gameState
               ELSE /\ playerSequence' = newPlayerSequence
                    /\ UNCHANGED isShowingSequence
                    /\ IF Len(newPlayerSequence) = Len(simonSequence)
                       THEN /\ gameState' = [gameState EXCEPT
                                               !.score = @ + ScoreStep * gameState.level]
                            /\ timers' = Append(timers,
                                  WithGame(NewTimer("simonAuto", SimonAdvanceDelay,
                                                    Op("handleSimonClick")),
                                           gameState))
                       ELSE UNCHANGED <<gameState, timers>>

\* variant: a wrong colour leaves the player's sequence as entered
handleSimonClickKeep(buttonId) ==
    /\ currentScreen = "game"
    /\ gameState.type = "simon"
    /\ buttonId \in 0..(NumSimonColors - 1)
    /\ lastOp' = Op("handleSimonClick")
    /\ UNCHANGED <<currentScreen, memVars, pairVars, patternVars, diffVars, seqVars,
                   simonSequence, activeSimonButton, modalVars, soundEnabled, starts>>
    /\ IF isShowingSequence
       THEN UNCHANGED <<gameState, playerSequence, isShowingSequence, timers>>
       ELSE LET newPlayerSequence == Append(playerSequence, buttonId)
                currentIndex == Len(newPlayerSequence)
            IN IF currentIndex > Len(simonSequence)
                  \/ newPlayerSequence[currentIndex] # simonSequence[currentIndex]
               THEN /\ isShowingSequence' = TRUE
                    /\ playerSequence' = newPlayerSequence
                    /\ timers' = Append(timers,
                          [NewTimer("simonWrong", SimonWrongDelay, Op("handleSimonClick"))
                           EXCEPT !.seq = simonSequence])
                    /\ UNCHANGED gameState
               ELSE /\ playerSequence' = newPlayerSequence
                    /\ UNCHANGED isShowingSequence
                    /\ IF Len(newPlayerSequence) = Len(simonSequence)
                       THEN /\ gameState' = [gameState EXCEPT
                                               !.score = @ + ScoreStep * gameState.level]
                            /\ timers' = Append(timers,
                                  WithGame(NewTimer("simonAuto", SimonAdvanceDelay,
                                                    Op("handleSimonClick")),
                                           gameState))
                       ELSE UNCHANGED <<gameState, timers>>

\* variant: a repeated sequence is worth 10 points at every level
handleSimonClickFlat(buttonId) ==
    /\ currentScreen = "game"
    /\ gameState.type = "simon"
    /\ buttonId \in 0..(NumSimonColors - 1)
    /\ lastOp' = Op("handleSimonClick")
    /\ UNCHANGED <<currentScreen, memVars, pairVars, patternVars, diffVars, seqVars,
                   simonSequence, activeSimonButton, modalVars, soundEnabled, starts>>
    /\ IF isShowingSequence
       THEN UNCHANGED <<gameState, playerSequence, isShowingSequence, timers>>
       ELSE LET newPlayerSequence == Append(playerSequence, buttonId)
                currentIndex == Len(newPlayerSequence)
            IN IF currentIndex > Len(simonSequence)
                  \/ newPlayerSequence[currentIndex] # simonSequence[currentIndex]
               THEN /\ isShowingSequence' = TRUE
                    /\ playerSequence' = <<>>
                    /\ timers' = Append(timers,
                          [NewTimer("simonWrong", SimonWrongDelay, Op("handleSimonClick"))
                           EXCEPT !.seq = simonSequence])
                    /\ UNCHANGED gameState
               ELSE /\ playerSequence' = newPlayerSequence
                    /\ UNCHANGED isShowingSequence
                    /\ IF Len(newPlayerSequence) = Len(simonSequence)
                       THEN /\ gameState' = [gameState EXCEPT
                                               !.score = @ + ScoreStep]
                            /\ timers' = Append(timers,
                                  WithGame(NewTimer("simonAuto", SimonAdvanceDelay,
                                                    Op("handleSimonClick")),
                                           gameState))
                       ELSE UNCHANGED <<gameState, timers>>

\* handleSimonClick, lines 516-547
handleSimonClick(buttonId) ==
    /\ currentScreen = "game"
    /\ gameState.type = "simon"
    /\ buttonId \in 0..(NumSimonColors - 1)
    /\ lastOp' = Op("handleSimonClick")
    /\ UNCHANGED <<currentScreen, memVars, pairVars, patternVars, diffVars, seqVars,
                   simonSequence, activeSimonButton, modalVars, soundEnabled, starts>>
    /\ IF isShowingSequence
       THEN UNCHANGED <<gameState, playerSequence, isShowingSequence, timers>>
       ELSE LET newPlayerSequence == Append(playerSequence, buttonId)
                currentIndex == Len(newPlayerSequence)
            IN IF currentIndex > Len(simonSequence)
                  \/ newPlayerSequence[currentIndex] # simonSequence[currentIndex]
               THEN /\ isShowingSequence' = TRUE
                    /\ playerSequence' = <<>>
                    /\ timers' = Append(timers,
                          [NewTimer("simonWrong", SimonWrongDelay, Op("handleSimonClick"))
                           EXCEPT !.seq = simonSequence])
                    /\ UNCHANGED gameState
               ELSE /\ playerSequence' = newPlayerSequence
                    /\ UNCHANGED isShowingSequence
                    /\ IF Len(newPlayerSequence) = Len(simonSequence)
                       THEN /\ gameState' = [gameState EXCEPT
                                               !.score = @ + ScoreStep * gameState.level]
                            /\ timers' = Append(timers,
                                  WithGame(NewTimer("simonAuto", SimonAdvanceDelay,
                                                    Op("handleSimonClick")),
                                           gameState))
                       ELSE UNCHANGED <<gameState, timers>>

\* the callback of lines 543-545
FireSimonAuto(i) ==
    /\ CanFire(i)
    /\ timers[i].kind = "simonAuto"
    /\ autoAdvanceLevel(timers[i], RemoveAt(timers, i), TimerOp("simonAutoTimer", i))
    /\ UNCHANGED <<currentScreen, gameState, puzzleVars, soundEnabled, starts>>

----------------------------------------------------------------------------
(* Screen controller *)

\* the switch of lines 141-160 and 558-577: the variant's init at a level
InitGameAtLevel(t, level, ts, op) ==
    CASE t = "memory" ->
           /\ initMemoryGameAtLevel(level)
           /\ timers' = ts
           /\ UNCHANGED <<pairVars, patternVars, diffVars, seqVars, simonVars>>
      [] t = "find-pair" ->
           /\ initFindPairGameAtLevel(level)
           /\ timers' = ts
           /\ UNCHANGED <<memVars, patternVars, diffVars, seqVars, simonVars>>
      [] t = "pattern" ->
           /\ initPatternGameAtLevel(level)
           /\ timers' = ts
           /\ UNCHANGED <<memVars, pairVars, diffVars, seqVars, simonVars>>
      [] t = "different" ->
           /\ initDifferentGameAtLevel(level)
           /\ timers' = ts
           /\ UNCHANGED <<memVars, pairVars, patternVars, seqVars, simonVars>>
      [] t = "sequence" ->
           /\ initSequenceGameAtLevel(level)
           /\ timers' = ts
           /\ UNCHANGED <<memVars, pairVars, patternVars, diffVars, simonVars>>
      [] t = "simon" ->
           /\ initSimonGameAtLevel(level, ts, op)
           /\ UNCHANGED <<memVars, pairVars, patternVars, diffVars, seqVars>>

\* variant: startGame does not set the type before the screen changes
StartGameStateNoType(gameType) ==
    [type |-> "null", level |-> 1, maxLevel |-> 1, score |-> 0, attempts |-> 0]

\* setGameState({ type, level: 1, maxLevel: 1, score: 0, attempts: 0 }), line 556
StartGameState(gameType) ==
    [type |-> gameType, level |-> 1, maxLevel |-> 1, score |-> 0, attempts |-> 0]

\* the body of startGame, lines 550-580
startGame(gameType, op) ==
    /\ showWinModal' = FALSE
    /\ showLevelCompleteModal' = FALSE
    /\ gameState' = InitGameState(StartGameState(gameType), gameType, 1)
    /\ InitGameAtLevel(gameType, 1, timers, op)
    /\ currentScreen' = "game"
    /\ starts' = starts + 1
    /\ lastOp' = op
    /\ UNCHANGED soundEnabled

\* lastOp of a call that starts a session of gameType: the session is the new one
StartOp(name, gameType) ==
    [Op(name) EXCEPT !.type = gameType, !.level = 1, !.session = starts + 1,
                     !.won = 0]

\* a game card of the menu is clicked, lines 672-762
StartGame(gameType) ==
    /\ currentScreen = "menu"
    /\ startGame(gameType, StartOp("startGame", gameType))

\* variant: goToMenu leaves the session state as it is
goToMenuKeepSession ==
    /\ currentScreen' = "menu"
    /\ showWinModal' = FALSE
    /\ showLevelCompleteModal' = FALSE
    /\ timers' = ClearRef(timers)
    /\ UNCHANGED <<gameState, puzzleVars, soundEnabled, starts>>

\* goToMenu, lines 583-595
goToMenu ==
    /\ currentScreen' = "menu"
    /\ gameState' = DefaultGameState
    /\ showWinModal' = FALSE
    /\ showLevelCompleteModal' = FALSE
    /\ timers' = ClearRef(timers)
    /\ UNCHANGED <<puzzleVars, soundEnabled, starts>>

\* the Menu button of the game screen or of the win modal
GoToMenu ==
    /\ currentScreen = "game"
    /\ goToMenu
    /\ lastOp' = [Op("goToMenu") EXCEPT !.won = 0]

\* variant: restartGame hides the banners and starts nothing
restartGameBannersOnly ==
    /\ showWinModal' = FALSE
    /\ showLevelCompleteModal' = FALSE
    /\ lastOp' = Op("restartGame")
    /\ UNCHANGED <<currentScreen, gameState, puzzleVars, soundEnabled, timers, starts>>

\* restartGame, lines 598-606
restartGame ==
    IF gameState.type # "null"
    THEN startGame(gameState.type, StartOp("restartGame", gameState.type))
    ELSE /\ showWinModal' = FALSE
         /\ showLevelCompleteModal' = FALSE
         /\ lastOp' = Op("restartGame")
         /\ UNCHANGED <<currentScreen, gameState, puzzleVars, soundEnabled, timers, starts>>

\* the restart button of the game screen or of the win modal
RestartGame ==
    /\ currentScreen = "game"
    /\ restartGame

\* the win modal's backdrop is clicked, line 1234
DismissWin ==
    /\ currentScreen = "game"
    /\ showWinModal
    /\ showWinModal' = FALSE
    /\ lastOp' = Op("dismissWin")
    /\ UNCHANGED <<currentScreen, gameState, puzzleVars, showLevelCompleteModal,
                   soundEnabled, timers, starts>>

\* the sound button, line 825
ToggleSound ==
    /\ currentScreen = "game"
    /\ soundEnabled' = ~soundEnabled
    /\ lastOp' = Op("toggleSound")
    /\ UNCHANGED <<currentScreen, gameState, puzzleVars, modalVars, timers, starts>>

\* variant: the init function's write of level comes before the increment
FireAdvanceInitFirst(i) ==
    /\ CanFire(i)
    /\ timers[i].kind = "advance"
    /\ LET t == timers[i]
       IN /\ showLevelCompleteModal' = FALSE
          /\ gameState' = [InitGameState(gameState, t.type, t.level + 1)
                           EXCEPT !.level = @ + 1]
          /\ InitGameAtLevel(t.type, t.level + 1, RemoveAt(timers, i),
                             TimerOp("advanceTimer", i))
    /\ lastOp' = TimerOp("advanceTimer", i)
    /\ UNCHANGED <<currentScreen, showWinModal, soundEnabled, starts>>

\* the delayed callback of autoAdvanceLevel, lines 136-161
FireAdvance(i) ==
    /\ CanFire(i)
    /\ timers[i].kind = "advance"
    /\ LET t == timers[i]
       IN /\ showLevelCompleteModal' = FALSE
          /\ gameState' = InitGameState([gameState EXCEPT !.level = @ + 1],
                                        t.type, t.level + 1)
          /\ InitGameAtLevel(t.type, t.level + 1, RemoveAt(timers, i),
                             TimerOp("advanceTimer", i))
    /\ lastOp' = TimerOp("advanceTimer", i)
    /\ UNCHANGED <<currentScreen, showWinModal, soundEnabled, starts>>

\* the time left until the next timer is due
MinDue(ts) == CHOOSE d \in {ts[i].due : i \in 1..Len(ts)} :
                 \A i \in 1..Len(ts) : d <= ts[i].due

\* time passes with no timer due: up to the next timer, TickStep at most
Tick ==
    /\ timers # <<>>
    /\ MinDue(timers) > 0
    /\ timers' = [i \in 1..Len(timers) |->
                    [timers[i] EXCEPT !.due = @ - Min(TickStep, MinDue(timers))]]
    /\ UNCHANGED <<currentScreen, gameState, puzzleVars, modalVars, soundEnabled,
                   starts, lastOp>>

----------------------------------------------------------------------------
(* Specifications *)

\* the state after the useState initialisers, lines 94-127
Init ==
    /\ currentScreen = "menu"
    /\ gameState = DefaultGameState
    /\ memoryCards = <<>>
    /\ selectedCards = <<>>
    /\ selectedPair = [image |-> 0, word |-> 0]
    /\ pairedItems = {}
    /\ currentFindPairLevel = 1
    /\ currentPatternIndex = 0
    /\ patternFeedback = "null"
    /\ currentDifferentIndex = 0
    /\ differentFeedback = "null"
    /\ currentSequenceIndex = 0
    /\ sequenceItems = <<>>
    /\ simonSequence = <<>>
    /\ playerSequence = <<>>
    /\ isShowingSequence = FALSE
    /\ activeSimonButton = -1
    /\ showLevelCompleteModal = FALSE
    /\ showWinModal = FALSE
    /\ soundEnabled = TRUE
    /\ timers = <<>>
    /\ starts = 0
    /\ lastOp = [op |-> "init", type |-> "null", level |-> 1, session |-> 0,
                 coord |-> "none", won |-> 0]

\* the level of the puzzle on screen
PuzzleLevel ==
    CASE gameState.type = "memory"    -> Len(memoryCards) \div 4
      [] gameState.type = "find-pair" -> currentFindPairLevel
      [] gameState.type = "simon"     -> Len(simonSequence)
      [] OTHER                        -> gameState.level

\* the inputs explored: small puzzles, few flips, few timers in flight
CanPlay ==
    /\ PuzzleLevel <= MaxPlayLevel
    /\ gameState.type = "simon" => Len(simonSequence) <= MaxSimonLevel
    /\ gameState.attempts < MaxAttempts
    /\ Len(timers) < MaxPending
    /\ gameState.score < MaxScore

\* a session is started while fewer than MaxStarts have been
Start(t) == starts < MaxStarts /\ StartGame(t)
Restart  == starts < MaxStarts /\ RestartGame

\* the player's inputs to the game on screen, within the bounds
CardClick(i)      == CanPlay /\ handleCardClick(i)
PairSelect(k, v)  == CanPlay /\ handleFindPairSelect(k, v)
PatternAnswer(o)  == CanPlay /\ handlePatternAnswer(o)
DifferentClick(i) == CanPlay /\ handleDifferentClick(i)
SequenceClick(it) == CanPlay /\ handleSequenceClick(it)
SimonClick(b)     == CanPlay /\ handleSimonClick(b)

AllOptions == UNION {Range(allPatterns[r].options) : r \in 1..Len(allPatterns)}
AllItems   == UNION {Range(correctOrder(q)) : q \in 1..NumSequences}
MaxItems   == 6

Timers == 1..Len(timers)

Next ==
    \/ \E t \in GameTypes : Start(t)
    \/ GoToMenu
    \/ Restart
    \/ \E i \in 1..Len(memoryCards) : CardClick(i)
    \/ \E k \in {"image", "word"}, v \in 1..NumPairs : PairSelect(k, v)
    \/ \E o \in AllOptions : PatternAnswer(o)
    \/ \E i \in 0..(MaxItems - 1) : DifferentClick(i)
    \/ \E it \in AllItems : SequenceClick(it)
    \/ \E b \in 0..(NumSimonColors - 1) : SimonClick(b)
    \/ \E i \in Timers : FireAdvance(i)
    \/ \E i \in Timers : FireMatch(i)
    \/ \E i \in Timers : FireNoMatch(i)
    \/ \E i \in Timers : FirePattern(i)
    \/ \E i \in Timers : FireDifferent(i)
    \/ \E i \in Timers : FireShowSequence(i)
    \/ \E i \in Timers : FireShowNext(i)
    \/ \E i \in Timers : FireSimonOff(i)
    \/ \E i \in Timers : FireSimonAuto(i)
    \/ Tick

Spec == Init /\ [][Next]_vars

\* restartGame called while no game type is set (no control of the page makes
\* this call: the restart buttons are on the game screen)
RestartAtMenu ==
    /\ currentScreen = "menu"
    /\ restartGame

\* the page, and restartGame called from the menu as well
CallSpec == Init /\ [][Next \/ RestartAtMenu]_vars

\* the pair game played to its end, with no bound on the player's inputs
DeepNext ==
    \/ Start("find-pair")
    \/ GoToMenu
    \/ Restart
    \/ DismissWin
    \/ \E k \in {"image", "word"}, v \in 1..NumPairs : handleFindPairSelect(k, v)
    \/ \E i \in Timers : FireAdvance(i)
    \/ Tick

DeepSpec == Init /\ [][DeepNext]_vars

\* a timer's callback runs
Fire(i) ==
    \/ FireAdvance(i)
    \/ FireMatch(i)
    \/ FireNoMatch(i)
    \/ FirePattern(i)
    \/ FireDifferent(i)
    \/ FireShowSequence(i)
    \/ FireShowNext(i)
    \/ FireSimonOff(i)
    \/ FireSimonAuto(i)

\* the event loop: time passes, and a timer that is due fires
FairSpec ==
    /\ Spec
    /\ WF_vars(Tick)
    /\ WF_vars(\E i \in Timers : Fire(i))

\* the content-lookup functions are called with the levels and indexes from
\* LookupBelow under 0 up to LookupMax
LookupBelow == 2
LookupMax == 12
LookupArgs == (0 - LookupBelow)..LookupMax

\* a call of a content-lookup function, lines 1298-1385, and the table entry
\* it returned (a row of the table, or the pairs offered)
Call(name, level, index, result) ==
    [op |-> name, level |-> level, index |-> index, result |-> result]

\* what a lookup leaves alone: it reads tables only
progVars == <<currentScreen, gameState, puzzleVars, modalVars, soundEnabled,
              timers, starts>>

LookupFindPairs ==
    \E level \in LookupArgs :
        /\ lastOp' = Call("getFindPairsForLevel", level, 0, getFindPairsForLevel(level))
        /\ UNCHANGED progVars

LookupPatterns ==
    \E level \in LookupArgs, index \in LookupArgs :
        /\ lastOp' = Call("getPatternsForLevel", level, index,
                          getPatternsForLevel(level, index))
        /\ UNCHANGED progVars

LookupDifferent ==
    \E level \in LookupArgs, index \in LookupArgs :
        /\ lastOp' = Call("getDifferentForLevel", level, index,
                          getDifferentForLevel(level, index))
        /\ UNCHANGED progVars

LookupSequence ==
    \E level \in LookupArgs, index \in LookupArgs :
        /\ lastOp' = Call("getSequenceForLevel", level, index,
                          getSequenceForLevel(level, index))
        /\ UNCHANGED progVars

LookupNext == LookupFindPairs \/ LookupPatterns \/ LookupDifferent \/ LookupSequence

\* the content-lookup functions called with any level and index
LookupSpec == Init /\ [][LookupNext]_vars

----------------------------------------------------------------------------
(* Properties *)

\* the session startGame(t) establishes
FreshSession(t) ==
    [type |-> t, level |-> 1, maxLevel |-> MAX_LEVELS(t), score |-> 0, attempts |-> 0]

\* C1: right after startGame(t) the session is {type t, level 1, maxLevel the
\* declared total of t, score 0, attempts 0}, the screen is 'game' and both
\* banners are hidden.
C1_StartGameSession ==
    lastOp.op = "startGame" =>
        /\ lastOp.type \in GameTypes
        /\ gameState = FreshSession(lastOp.type)
        /\ currentScreen = "game"
        /\ ~showLevelCompleteModal
        /\ ~showWinModal

\* a second session has just been started while a timer of the first is pending
C1_Witness ==
    /\ lastOp.op = "startGame"
    /\ starts = 2
    /\ \E i \in Timers : timers[i].session < lastOp.session

\* C2: whenever the screen is 'game' the session's type is set.
C2_GameScreenHasType ==
    currentScreen = "game" => gameState.type \in GameTypes

\* the game screen after a level advance
C2_Witness ==
    /\ currentScreen = "game"
    /\ lastOp.op = "advanceTimer"
    /\ gameState.level = 2

\* C3: 1 <= level <= maxLevel in every reachable state.
C3_LevelWithinBounds ==
    /\ 1 <= gameState.level
    /\ gameState.level <= gameState.maxLevel

\* a step that ends the session: startGame, restartGame or goToMenu
EndsSession ==
    \/ starts' # starts
    \/ currentScreen = "game" /\ currentScreen' = "menu"

\* C4: no step between one startGame and the next startGame or goToMenu lowers
\* the score, and the score is 0 right after startGame.
C4_ScoreMonotonic ==
    /\ [](lastOp.op = "startGame" => gameState.score = 0)
    /\ [][~EndsSession => gameState'.score >= gameState.score]_vars

\* a timer callback has raised the score to two steps' worth
C4_Witness ==
    /\ lastOp.op = "matchTimer"
    /\ gameState.score = 2 * ScoreStep

\* the puzzle state of variant t as its init builds it for a level
FreshPuzzle(t, level) ==
    CASE t = "memory" ->
           memoryCards \in Shuffled(NewCards(level)) /\ selectedCards = <<>>
      [] t = "find-pair" ->
           /\ selectedPair = [image |-> 0, word |-> 0]
           /\ pairedItems = {}
           /\ currentFindPairLevel = level
      [] t = "pattern" ->
           currentPatternIndex = 0 /\ patternFeedback = "null"
      [] t = "different" ->
           currentDifferentIndex = 0 /\ differentFeedback = "null"
      [] t = "sequence" ->
           /\ level \in 1..NumSequences
           /\ sequenceItems \in Shuffled(correctOrder(level))
           /\ currentSequenceIndex = 0
      [] t = "simon" ->
           /\ Len(simonSequence) = level
           /\ playerSequence = <<>>
           /\ isShowingSequence
           /\ activeSimonButton = -1
      [] OTHER -> FALSE

\* the callback that ran last belongs to the session on screen: no startGame,
\* restartGame or goToMenu came after the input that led to it
OfThisSession == lastOp.session = starts /\ currentScreen = "game"

\* the coordinator has just shown the level-complete banner
C5_BannerShown == lastOp.coord = "advance" => showLevelCompleteModal

\* the delay timer of a coordinator call with level L has just fired: the
\* banner is cleared, the level is L + 1 and the puzzle is a new one for L + 1
C5_Advanced ==
    (lastOp.op = "advanceTimer" /\ OfThisSession) =>
        /\ ~showLevelCompleteModal
        /\ gameState.type = lastOp.type
        /\ gameState.level = lastOp.level + 1
        /\ gameState.maxLevel = MAX_LEVELS(lastOp.type)
        /\ FreshPuzzle(lastOp.type, lastOp.level + 1)

\* C5: a coordinator call with level L < maxLevel shows the level-complete
\* banner; when its delay timer fires, with no return to the menu and no
\* restart since the input that completed the puzzle, the banner is cleared,
\* the level is exactly L + 1 and the variant's puzzle is re-initialised for
\* L + 1; if timers fire when due, the timer does fire.
C5_LevelAdvance ==
    /\ [](C5_BannerShown /\ C5_Advanced)
    /\ (lastOp.coord = "advance" ~> lastOp.op = "advanceTimer")

\* the second level was completed and its delay timer has fired
C5_Witness ==
    /\ lastOp.op = "advanceTimer"
    /\ OfThisSession
    /\ lastOp.level = 2
    /\ gameState.level = 3

\* the coordinator has just declared the session won: the win banner is shown
C6_WinShown == lastOp.coord = "win" => showWinModal

\* the step in which the coordinator declares the session won schedules no timer
C6_NoAdvanceScheduled ==
    [][(lastOp' # lastOp /\ lastOp'.coord = "win") => Len(timers') <= Len(timers)]_vars

\* once the session is won its level stays what it was, until startGame,
\* restartGame or goToMenu
C6_LevelStays == lastOp.won # 0 => gameState.level = lastOp.won

\* the win banner is taken down only by a dismissal, goToMenu or restartGame
C6_BannerStays ==
    [][(showWinModal /\ ~showWinModal')
          => lastOp'.op \in {"dismissWin", "goToMenu", "restartGame"}]_vars

\* C6: a coordinator call with level = maxLevel shows the win banner and
\* schedules no advance; from then on the level does not change until
\* startGame, restartGame or goToMenu, and the win banner stays until it is
\* dismissed or the user returns to the menu or restarts.
C6_WinIsFinal ==
    /\ [](C6_WinShown /\ C6_LevelStays)
    /\ C6_NoAdvanceScheduled
    /\ C6_BannerStays

\* C9: right after goToMenu the screen is 'menu', the session state is the
\* default one and both banners are hidden.
C9_GoToMenuResets ==
    lastOp.op = "goToMenu" =>
        /\ currentScreen = "menu"
        /\ gameState = DefaultGameState
        /\ ~showLevelCompleteModal
        /\ ~showWinModal

\* goToMenu was called at level 1 while a level advance was pending
C9_Witness ==
    /\ lastOp.op = "goToMenu"
    /\ lastOp.level = 1
    /\ \E i \in Timers : timers[i].kind = "advance"

\* C7: after goToMenu the session state stays the default one until the next
\* startGame, whatever timer was pending when goToMenu was called.
C7_MenuKeepsDefaultSession ==
    currentScreen = "menu" => gameState = DefaultGameState

\* C8: a timer callback scheduled in a previous session does not change the
\* session state or the puzzle state of the new session.
C8_NoStaleMutation ==
    [][(currentScreen = "game" /\ lastOp' # lastOp /\ lastOp'.session < starts')
          => UNCHANGED <<gameState, puzzleVars>>]_vars

\* C10: restartGame with a type t set gives the session state of startGame(t):
\* level 1, score 0, attempts 0, maxLevel of t and a new puzzle for level 1;
\* with no type set it leaves the session state and the screen as they are.
C10_RestartGame ==
    [][(lastOp'.op = "restartGame" /\ lastOp' # lastOp) =>
          IF gameState.type # "null"
          THEN /\ gameState' = FreshSession(gameState.type)
               /\ currentScreen' = "game"
               /\ FreshPuzzle(gameState.type, 1)'
          ELSE UNCHANGED <<gameState, currentScreen>>]_vars

\* a session with points and a pending timer has just been restarted
C10_Witness ==
    /\ lastOp.op = "restartGame"
    /\ lastOp.type = "memory"
    /\ gameState = FreshSession("memory")
    /\ \E i \in Timers : timers[i].kind = "match" /\ timers[i].session < starts

\* C11: between a startGame and the next startGame, restartGame or goToMenu no
\* input handler changes the level, and every change of the level is an
\* increase by exactly 1 made by the coordinator's delayed advance step.
C11_LevelOnlyByCoordinator ==
    [][(currentScreen = "game" /\ ~EndsSession /\ gameState'.level # gameState.level)
          => /\ lastOp'.op = "advanceTimer"
             /\ gameState'.level = gameState.level + 1]_vars

\* the coordinator's delayed advance step runs
AdvanceStep == \E i \in Timers : FireAdvance(i)

\* C12: the coordinator's advance step, with the init(level) it calls, leaves
\* score and attempts as they are, as does every other step that changes the
\* level within a session; score and attempts are lowered only by startGame
\* (restartGame calls it) and goToMenu.
C12_LevelChangeKeepsScore ==
    /\ [][(AdvanceStep \/ (~EndsSession /\ gameState'.level # gameState.level))
            => /\ gameState'.score = gameState.score
               /\ gameState'.attempts = gameState.attempts]_vars
    /\ [][(gameState'.score < gameState.score \/ gameState'.attempts < gameState.attempts)
            => EndsSession]_vars

\* the memory game has advanced to level 2 with points and attempts counted
C12_Witness ==
    /\ lastOp.op = "advanceTimer"
    /\ gameState.type = "memory"
    /\ gameState.level = 2
    /\ gameState.score = 2 * ScoreStep
    /\ gameState.attempts = 2

\* C13: whenever a game type is set, maxLevel is the declared total of that
\* type (memory 5, find-pair 3, pattern 5, different 5, sequence 4, simon 10).
C13_MaxLevelOfType ==
    gameState.type \in GameTypes => gameState.maxLevel = MAX_LEVELS(gameState.type)

\* a step in which autoAdvanceLevel is invoked (time passing leaves lastOp as
\* it is; every handler and callback writes it anew)
CoordinatorCalled == ~Tick /\ lastOp'.coord # "none"

\* the coordinator is not invoked while one of its banners is showing
C14_NoCallUnderBanner ==
    [][CoordinatorCalled => ~showLevelCompleteModal /\ ~showWinModal]_vars

\* the coordinator is invoked for the level on screen, not for one already left
C14_CallForCurrentLevel ==
    [][CoordinatorCalled => /\ lastOp'.type = gameState.type
                            /\ lastOp'.level = gameState.level]_vars

\* the coordinator is not invoked while an advance it scheduled is pending
C14_NoCallWhileAdvancing ==
    [][CoordinatorCalled => \A i \in Timers : timers[i].kind # "advance"]_vars

\* C14: the coordinator is not re-entered: it is invoked at most once for each
\* level instance (never again while its advance is pending, never for a level
\* already left) and never while the level-complete or the win banner shows.
C14_NotReentrant ==
    /\ C14_NoCallUnderBanner
    /\ C14_CallForCurrentLevel
    /\ C14_NoCallWhileAdvancing

\* what the level's puzzle shows when it is solved: every card matched, every
\* pair paired, the challenge that ends the level answered correctly, every
\* item placed, the colour sequence repeated (its points counted)
LevelSolved ==
    CASE gameState.type = "memory" ->
           /\ memoryCards # <<>>
           /\ \A k \in 1..Len(memoryCards) : memoryCards[k].matched
      [] gameState.type = "find-pair" ->
           pairedItems = levelPairs(currentFindPairLevel)
      [] gameState.type = "pattern" -> patternFeedback = "correct"
      [] gameState.type = "different" -> differentFeedback = "correct"
      [] gameState.type = "sequence" -> sequenceItems = <<>>
      [] gameState.type = "simon" ->
           gameState.score >= ScoreStep * gameState.level
      [] OTHER -> FALSE

\* C15: the coordinator is invoked, by a handler or callback of the session on
\* screen, only when the level's puzzle is solved; a level of the pattern or
\* odd-one-out game whose challenge was answered incorrectly does not complete.
C15_CompleteOnlyWhenSolved ==
    [][(CoordinatorCalled /\ lastOp'.session = starts /\ currentScreen = "game")
          => LevelSolved']_vars

\* handleSequenceClick accepts the item: it is taken out of the remaining items
SequenceAccepts(item) ==
    ENABLED (handleSequenceClick(item) /\ sequenceItems' # sequenceItems)

\* C16: a won session is reachable for every game type. For the
\* sequence-ordering game every run to the win banner places the items one by
\* one, so while items remain to be placed the accept test of
\* handleSequenceClick admits one of them (the first item can be placed).
C16_SequenceCanProgress ==
    (currentScreen = "game" /\ gameState.type = "sequence" /\ sequenceItems # <<>>)
        => \E item \in Range(sequenceItems) : SequenceAccepts(item)

\* the call has an index that is not one of the level's challenges (a level of
\* the pattern and odd-one-out games has as many challenges as its number)
IndexOutside == lastOp.index \notin 0..(lastOp.level - 1)

\* C17: each content-lookup function returns an entry of its table for every
\* level and index; for a level outside [1, declared total] of its game, or
\* an index outside the level's challenges, it returns the first entry
\* (level 1's pairs, the first challenge).
C17_LookupFallback ==
    /\ lastOp.op = "getFindPairsForLevel" =>
          /\ lastOp.result # {}
          /\ lastOp.result \subseteq 1..NumPairs
          /\ (lastOp.level \notin 1..MAX_LEVELS("find-pair"))
                => lastOp.result = 1..pairsCountMap[1]
    /\ lastOp.op = "getPatternsForLevel" =>
          /\ lastOp.result \in 1..Len(allPatterns)
          /\ (lastOp.level \notin 1..MAX_LEVELS("pattern") \/ IndexOutside)
                => lastOp.result = 1
    /\ lastOp.op = "getDifferentForLevel" =>
          /\ lastOp.result \in 1..Len(allLevels)
          /\ (lastOp.level \notin 1..MAX_LEVELS("different") \/ IndexOutside)
                => lastOp.result = 1
    /\ lastOp.op = "getSequenceForLevel" =>
          /\ lastOp.result \in 1..NumSequences
          /\ (lastOp.level \notin 1..MAX_LEVELS("sequence")) => lastOp.result = 1

\* a pattern lookup at a valid level with an index past the level's challenges
C17_Witness ==
    /\ lastOp.op = "getPatternsForLevel"
    /\ lastOp.level = 2
    /\ lastOp.index = 5
    /\ lastOp.result = 1

\* every card of the grid is matched
AllMatched(cards) == \A k \in 1..Len(cards) : cards[k].matched

\* the second card of a pair is flipped: one more attempt, the score as it was
C18_SecondFlip ==
    [][(\E index \in 1..Len(memoryCards) :
            handleCardClick(index) /\ Len(selectedCards) = 1 /\ Len(selectedCards') = 2)
          => /\ gameState'.attempts = gameState.attempts + 1
             /\ gameState'.score = gameState.score]_vars

\* the match timer of two flipped cards fires: of the grid the cards were
\* flipped in, exactly those two become matched; the score goes up by 10, the
\* attempts stay, the selection is cleared; the coordinator is invoked exactly
\* when every card is now matched
C18_Match ==
    [][\A i \in Timers : FireMatch(i) =>
          LET t == timers[i]
          IN /\ t.cards[t.first].emoji = t.cards[t.second].emoji
             /\ t.first # t.second
             /\ \A k \in {t.first, t.second} :
                   /\ t.cards[k].flipped
                   /\ ~t.cards[k].matched
             /\ Len(memoryCards') = Len(t.cards)
             /\ \A k \in 1..Len(t.cards) :
                   memoryCards'[k] = IF k \in {t.first, t.second}
                                     THEN [t.cards[k] EXCEPT !.matched = TRUE]
                                     ELSE t.cards[k]
             /\ selectedCards' = <<>>
             /\ gameState'.score = gameState.score + ScoreStep
             /\ gameState'.attempts = gameState.attempts
             /\ AllMatched(memoryCards') <=> lastOp'.coord # "none"]_vars

\* the advance of a completed memory level 1 has run: level 2, six cards of
\* three emojis, all face down and unmatched, nothing selected
C18_LevelTwoGrid ==
    (lastOp.op = "advanceTimer" /\ lastOp.type = "memory" /\ lastOp.level = 1) =>
        /\ gameState.level = 2
        /\ Len(memoryCards) = 6
        /\ \A k \in 1..Len(memoryCards) :
              /\ ~memoryCards[k].flipped
              /\ ~memoryCards[k].matched
              /\ Cardinality({j \in 1..Len(memoryCards) :
                                 memoryCards[j].emoji = memoryCards[k].emoji}) = 2
        /\ selectedCards = <<>>

\* C18: in the memory game, flipping two face-down cards with the same emoji
\* counts one attempt and, when the match timer fires, marks exactly those two
\* cards matched, adds exactly 10 to the score and clears the selection; when
\* every card is then matched the coordinator is invoked, and at level 1 its
\* advance leads to level 2 with a new 6-card grid.
C18_MemoryMatch ==
    /\ C18_SecondFlip
    /\ C18_Match
    /\ []C18_LevelTwoGrid

\* level 1 was completed by two matches in two attempts and level 2 is set up
C18_Witness ==
    /\ lastOp.op = "advanceTimer"
    /\ OfThisSession
    /\ gameState = [type |-> "memory", level |-> 2, maxLevel |-> 5,
                    score |-> 2 * ScoreStep, attempts |-> 2]
    /\ Len(memoryCards) = 6
    /\ starts = 1

\* the challenge the pattern screen shows, lines 976-1009
ShownPattern == allPatterns[getPatternsForLevel(gameState.level, currentPatternIndex)]

\* C19: in the pattern game, selecting an option other than the answer of the
\* challenge on screen leaves the score and sets the feedback to 'wrong';
\* selecting the answer adds exactly 10 to the score and sets the feedback to
\* 'correct'.
C19_PatternAnswer ==
    [][\A option \in AllOptions : handlePatternAnswer(option) =>
          IF option = ShownPattern.answer
          THEN /\ gameState'.score = gameState.score + ScoreStep
               /\ patternFeedback' = "correct"
          ELSE /\ gameState'.score = gameState.score
               /\ patternFeedback' = "wrong"]_vars

\* the answer timer of the level-1 pattern challenge, answered correctly, has
\* just invoked the coordinator
PatternLevelOneDone ==
    /\ lastOp.op = "patternTimer"
    /\ lastOp.type = "pattern"
    /\ lastOp.level = 1
    /\ lastOp.coord # "none"
    /\ patternFeedback = "correct"

\* the correct option of the level-1 challenge adds exactly 10 to the score
C20_ScoreStep ==
    [][(gameState.level = 1 /\ currentPatternIndex = 0
           /\ handlePatternAnswer(allPatterns[1].answer))
          => /\ gameState'.score = gameState.score + ScoreStep
             /\ patternFeedback' = "correct"]_vars

C21_ClickIgnoredWhileShowing ==
    [][(isShowingSequence /\ \E b \in 0..(NumSimonColors - 1) : handleSimonClick(b))
          => UNCHANGED <<currentScreen, gameState, puzzleVars, modalVars,
                         soundEnabled, timers>>]_vars

\* a colour was clicked while the first playback of a session was still to come
C21_Witness ==
    /\ lastOp.op = "handleSimonClick"
    /\ isShowingSequence
    /\ gameState.type = "simon"
    /\ starts = 1
    /\ Len(timers) = 1
    /\ timers[1].kind = "simonInit"
    /\ timers[1].due < SimonInitDelay

\* one session of any game, with the sound button of the game screen
PlayNext ==
    \/ \E t \in GameTypes : starts = 0 /\ StartGame(t)
    \/ GoToMenu
    \/ \E i \in 1..Len(memoryCards) : CardClick(i)
    \/ \E k \in {"image", "word"}, v \in 1..NumPairs : PairSelect(k, v)
    \/ \E o \in AllOptions : PatternAnswer(o)
    \/ \E i \in 0..(MaxItems - 1) : DifferentClick(i)
    \/ \E it \in AllItems : SequenceClick(it)
    \/ \E b \in 0..(NumSimonColors - 1) : SimonClick(b)
    \/ \E i \in Timers : FireAdvance(i)
    \/ \E i \in Timers : FireMatch(i)
    \/ \E i \in Timers : FireNoMatch(i)
    \/ \E i \in Timers : FirePattern(i)
    \/ \E i \in Timers : FireDifferent(i)
    \/ \E i \in Timers : FireShowSequence(i)
    \/ \E i \in Timers : FireShowNext(i)
    \/ \E i \in Timers : FireSimonOff(i)
    \/ \E i \in Timers : FireSimonAuto(i)
    \/ Tick

SoundNext == PlayNext \/ ToggleSound

SoundSpec == Init /\ [][SoundNext]_vars

\* everything but the sound flag (and the record of the last handler)
gameVars == <<currentScreen, gameState, puzzleVars, modalVars, timers, starts>>

\* some input or timer callback can now change the game state in this way
CanScore     == ENABLED (PlayNext /\ gameState'.score > gameState.score)
CanCount     == ENABLED (PlayNext /\ gameState'.attempts > gameState.attempts)
CanAdvance   == ENABLED (PlayNext /\ gameState'.level # gameState.level)
CanSchedule  == ENABLED (PlayNext /\ Len(timers') > Len(timers))
CanShow      == ENABLED (PlayNext /\ modalVars' # modalVars)
CanMove      == ENABLED (PlayNext /\ puzzleVars' # puzzleVars)
CanLeave     == ENABLED (PlayNext /\ currentScreen' # currentScreen)
Possible     == <<CanScore, CanCount, CanAdvance, CanSchedule, CanShow, CanMove, CanLeave>>

C23_WinShownAtMaxLevel ==
    showWinModal => /\ gameState.type # DefaultGameState.type
                    /\ gameState.level = gameState.maxLevel

\* the win banner is raised only in a session whose level is not below maxLevel
C23_WinRaisedAtMaxLevel ==
    [][(~showWinModal /\ showWinModal') => gameState.level >= gameState.maxLevel]_vars

\* C23: whenever the win banner is shown the session's level equals its
\* maxLevel and a game type is set, and the banner is never raised for a
\* session whose current level is below maxLevel.
C23_WinOnlyAtMaxLevel ==
    /\ []C23_WinShownAtMaxLevel
    /\ C23_WinRaisedAtMaxLevel

\* the next item of the correct order: correctOrder[k], k the number of items
\* of the current sequence already taken out
NextToPlace ==
    correctOrder(currentSequenceIndex + 1)[(SequenceLen - Len(sequenceItems)) + 1]

\* the sequence-ordering puzzle is on screen with items still to be placed
SequenceOpen ==
    /\ currentScreen = "game"
    /\ gameState.type = "sequence"
    /\ currentSequenceIndex + 1 \in 1..NumSequences
    /\ Len(sequenceItems) \in 1..SequenceLen

\* a click on the next item of the correct order adds 10 to the score and
\* takes the item out of the remaining ones
C24_NextItemAccepted ==
    [][(SequenceOpen /\ handleSequenceClick(NextToPlace))
          => /\ gameState'.score = gameState.score + ScoreStep
             /\ \/ Len(sequenceItems') = Len(sequenceItems) - 1
                \/ Len(sequenceItems) = 1]_vars

\* a click on any other item changes no state
C24_OtherItemIgnored ==
    [][\A item \in AllItems :
          (SequenceOpen /\ item # NextToPlace /\ handleSequenceClick(item))
             => UNCHANGED <<gameState, seqVars, modalVars, timers>>]_vars

\* C24: in the sequence-ordering game the item accepted is the next item of
\* the correct order, correctOrder[k] with k the number of items already
\* correctly removed: clicking it adds 10 to the score and removes it from the
\* remaining items, and clicking any other item changes no state.
C24_SequenceAcceptsNext ==
    /\ C24_NextItemAccepted
    /\ C24_OtherItemIgnored

\* a click of the pair game
PairStep == \E k \in {"image", "word"}, v \in 1..NumPairs : handleFindPairSelect(k, v)

\* the pairs of the level on screen are all paired
AllPaired(paired) ==
    /\ currentFindPairLevel \in 1..3
    /\ paired = levelPairs(currentFindPairLevel)
    /\ Cardinality(paired) = <<3, 5, 7>>[currentFindPairLevel]

\* the selection that completes an image and a word of one not-yet-paired pair
\* of the level adds the pair to the paired set and 10 to the score
C25_PairAdded ==
    [][\A k \in {"image", "word"}, v \in 1..NumPairs :
          LET other == IF k = "image" THEN selectedPair.word ELSE selectedPair.image
          IN (/\ handleFindPairSelect(k, v)
              /\ other = v
              /\ v \in levelPairs(currentFindPairLevel)
              /\ v \notin pairedItems)
                => /\ pairedItems' = pairedItems \cup {v}
                   /\ gameState'.score = gameState.score + ScoreStep]_vars

\* the coordinator is invoked by the click that completes the level's paired
\* set, and in the pair game by no other step
C25_CoordinatorWhenAllPaired ==
    [][/\ PairStep => (lastOp'.coord # "none"
                          <=> (pairedItems' # pairedItems /\ AllPaired(pairedItems')))
       /\ (CoordinatorCalled /\ lastOp'.type = "find-pair") => PairStep]_vars

\* C25: in the pair game, selecting an image and a word that form a
\* not-yet-paired pair of the level adds the pair to the paired set and 10 to
\* the score; the coordinator is invoked exactly when, after that insertion,
\* the paired set contains all pairs of the level (3, 5, 7), never earlier or
\* later.
C25_PairMatching ==
    /\ C25_PairAdded
    /\ C25_CoordinatorWhenAllPaired

\* the seventh pair of level 3 has just been matched and the session is won
C25_Witness ==
    /\ lastOp.op = "handleFindPairSelect"
    /\ lastOp.coord = "win"
    /\ currentFindPairLevel = 3
    /\ Cardinality(pairedItems) = 7
    /\ gameState.score = 15 * ScoreStep

\* C26: while the pattern game (resp. the odd-one-out game) is active its
\* challenge index is within the level's challenges, 0 <= index < level, in
\* every reachable state, so the handlers never look up an undefined challenge.
C26_IndexWithinLevel ==
    /\ (currentScreen = "game" /\ gameState.type = "pattern")
          => currentPatternIndex \in 0..(gameState.level - 1)
    /\ (currentScreen = "game" /\ gameState.type = "different")
          => currentDifferentIndex \in 0..(gameState.level - 1)

\* a playback of the colour sequence is in progress: a timer of one of its
\* chains (the delay before showSimonSequence, showNext, its inner callback) is
\* pending
PlaybackInProgress ==
    \E i \in Timers : timers[i].kind \in {"simonInit", "simonWrong", "showNext", "simonOff"}

\* C27: in the colour-repeat game, whenever a playback is still in progress
\* isShowingSequence is true, also when a replay after a wrong answer overlaps
\* the next level's init, a restart or a menu round trip.
C27_ShowingWhilePlayback ==
    (currentScreen = "game" /\ gameState.type = "simon" /\ PlaybackInProgress)
        => isShowingSequence

\* the colour-repeat game played up to the sequences of DeepSimonLevel colours
DeepSimonLevel == 2

DeepSimonScore == 40

SimonPlay(b) ==
    /\ Len(simonSequence) <= DeepSimonLevel
    /\ gameState.level <= DeepSimonLevel
    /\ Len(timers) < MaxPending
    /\ gameState.score < DeepSimonScore
    /\ handleSimonClick(b)

SimonNext ==
    \/ Start("simon")
    \/ GoToMenu
    \/ Restart
    \/ \E b \in 0..(NumSimonColors - 1) : SimonPlay(b)
    \/ \E i \in Timers : FireAdvance(i)
    \/ \E i \in Timers : FireShowSequence(i)
    \/ \E i \in Timers : FireShowNext(i)
    \/ \E i \in Timers : FireSimonOff(i)
    \/ \E i \in Timers : FireSimonAuto(i)
    \/ Tick

SimonSpec == Init /\ [][SimonNext]_vars

\* the colour the player has to press next, if the sequence is not yet repeated
WrongColour(b) ==
    /\ ~isShowingSequence
    /\ Len(playerSequence) < Len(simonSequence)
    /\ b # simonSequence[Len(playerSequence) + 1]

\* C28: in the colour-repeat game a click that does not match the expected
\* colour resets the player's sequence to empty and disables input
\* (isShowingSequence true), leaves the sequence to repeat, the score and the
\* level unchanged, and the same sequence is replayed: its replay is scheduled
\* by the click and the playback then started shows that sequence from its
\* first colour.
C28_WrongColourReplays ==
    [][/\ \A b \in 0..(NumSimonColors - 1) :
             (WrongColour(b) /\ handleSimonClick(b))
                => /\ playerSequence' = <<>>
                   /\ isShowingSequence'
                   /\ UNCHANGED <<simonSequence, gameState>>
                   /\ timers' = Append(timers, timers'[Len(timers')])
                   /\ timers'[Len(timers')].kind = "simonWrong"
                   /\ timers'[Len(timers')].due = SimonWrongDelay
                   /\ timers'[Len(timers')].seq = simonSequence
       /\ \A i \in Timers :
             (timers[i].kind = "simonWrong" /\ FireShowSequence(i))
                => \E j \in 1..Len(timers') :
                      /\ timers'[j].kind = "showNext"
                      /\ timers'[j].seq = timers[i].seq
                      /\ timers'[j].index = 0
                      /\ timers'[j].isRef]_vars

\* a wrong colour has just been pressed at level 2, after level 1 was repeated
C28_Witness ==
    /\ lastOp.op = "handleSimonClick"
    /\ gameState.type = "simon"
    /\ gameState.level = 2
    /\ gameState.score = ScoreStep
    /\ starts = 1
    /\ Len(simonSequence) = 2
    /\ isShowingSequence
    /\ playerSequence = <<>>
    /\ Len(timers) = 1
    /\ timers[1].kind = "simonWrong"
    /\ timers[1].seq = simonSequence
    /\ timers[1].due = SimonWrongDelay

\* a due timer of the colour-repeat game fires
SimonFire(i) ==
    \/ FireAdvance(i)
    \/ FireShowSequence(i)
    \/ FireShowNext(i)
    \/ FireSimonOff(i)
    \/ FireSimonAuto(i)

\* the event loop under the colour-repeat game: time passes, due timers fire
FairSimonSpec ==
    /\ SimonSpec
    /\ WF_vars(Tick)
    /\ WF_vars(\E i \in Timers : SimonFire(i))

\* the colour-repeat game is on screen
InSimon == currentScreen = "game" /\ gameState.type = "simon"

\* the last callback of a playback runs: its last colour goes off
PlaybackFinishes ==
    \E i \in Timers : /\ FireSimonOff(i)
                      /\ timers[i].index + 1 = Len(timers[i].seq)

\* input is enabled again only by the last callback of a playback
C29_EnabledByPlaybackEnd ==
    [][(isShowingSequence /\ ~isShowingSequence') => PlaybackFinishes]_vars

\* while the game stays on screen, isShowingSequence eventually becomes false
C29_EventuallyEnabled ==
    (InSimon /\ isShowingSequence) ~> (~isShowingSequence \/ ~InSimon)

\* C29: in the colour-repeat game, after an init or a wrong answer (both set
\* isShowingSequence and start a playback), if the user stays in the game the
\* playback eventually finishes and isShowingSequence eventually becomes
\* false, given that time passes and due timer callbacks run.
C29_PlaybackEnds ==
    /\ C29_EventuallyEnabled
    /\ C29_EnabledByPlaybackEnd

\* the playback of a two-colour sequence has just finished
C29_Witness ==
    /\ InSimon
    /\ lastOp.op = "simonOffTimer"
    /\ Len(simonSequence) = 2
    /\ ~isShowingSequence
    /\ timers = <<>>
    /\ starts = 1

\* one session of any game, the colour-repeat game up to DeepSimonLevel colours
ScoreNext ==
    \/ PlayNext
    \/ \E b \in 0..(NumSimonColors - 1) : SimonPlay(b)

ScoreSpec == Init /\ [][ScoreNext]_vars

\* the step adds n to the score
Adds(n) == gameState'.score = gameState.score + n

\* a colour click that completes the repetition of the sequence
SimonCompleted ==
    /\ ~isShowingSequence
    /\ playerSequence' # <<>>
    /\ Len(playerSequence') = Len(simonSequence)

\* C30: every increase of the score is by a fixed amount: exactly 10 for a
\* matched pair (memory, pair matching), a correct answer (pattern,
\* odd-one-out) or a correctly placed item (sequence), and exactly 10 times
\* the current level for a fully repeated colour sequence; the correct colour
\* clicks before the last one do not change the score.
C30_ScoreSteps ==
    [][/\ gameState'.score > gameState.score =>
             CASE lastOp'.op = "handleSimonClick" -> Adds(ScoreStep * gameState.level)
               [] lastOp'.op \in {"matchTimer", "handleFindPairSelect",
                                  "handlePatternAnswer", "handleDifferentClick",
                                  "handleSequenceClick"} -> Adds(ScoreStep)
               [] OTHER -> FALSE
       /\ \A b \in 0..(NumSimonColors - 1) :
             handleSimonClick(b) =>
                IF SimonCompleted THEN Adds(ScoreStep * gameState.level) ELSE Adds(0)]_vars

\* the two colours of level 2 have just been repeated: 20 points on top of the
\* 10 of level 1
C30_Witness ==
    /\ lastOp.op = "handleSimonClick"
    /\ gameState.type = "simon"
    /\ gameState.level = 2
    /\ Len(playerSequence) = 2
    /\ playerSequence = simonSequence
    /\ gameState.score = 3 * ScoreStep

\* the answer timer of the pattern game fires in the session the answer was
\* given in: before the level's last challenge the next challenge is put on
\* screen with the feedback cleared, after the last one (the L-th of level L)
\* the coordinator is invoked
C31_PatternNext ==
    [][\A i \in Timers :
          (/\ FirePattern(i)
           /\ timers[i].session = starts
           /\ currentScreen = "game"
           /\ gameState.type = "pattern")
             => IF currentPatternIndex < gameState.level - 1
                THEN /\ timers[i].index = currentPatternIndex
                     /\ currentPatternIndex' = currentPatternIndex + 1
                     /\ patternFeedback' = "null"
                     /\ lastOp'.coord = "none"
                ELSE /\ currentPatternIndex = gameState.level - 1
                     /\ lastOp'.coord # "none"]_vars

\* the same for the odd-one-out game
C31_DifferentNext ==
    [][\A i \in Timers :
          (/\ FireDifferent(i)
           /\ timers[i].session = starts
           /\ currentScreen = "game"
           /\ gameState.type = "different")
             => IF currentDifferentIndex < gameState.level - 1
                THEN /\ timers[i].index = currentDifferentIndex
                     /\ currentDifferentIndex' = currentDifferentIndex + 1
                     /\ differentFeedback' = "null"
                     /\ lastOp'.coord = "none"
                ELSE /\ currentDifferentIndex = gameState.level - 1
                     /\ lastOp'.coord # "none"]_vars

\* an answer, right or wrong, sets the feedback and starts the feedback delay
C31_AnswerTaken ==
    [][/\ \A o \in AllOptions :
             (handlePatternAnswer(o) /\ currentPatternIndex \in 0..(gameState.level - 1))
                => /\ patternFeedback' \in {"correct", "wrong"}
                   /\ Len(timers') = Len(timers) + 1
                   /\ timers'[Len(timers')].kind = "pattern"
                   /\ timers'[Len(timers')].due = AnswerDelay
       /\ \A x \in 0..(MaxItems - 1) :
             (handleDifferentClick(x) /\ currentDifferentIndex \in 0..(gameState.level - 1))
                => /\ differentFeedback' \in {"correct", "wrong"}
                   /\ Len(timers') = Len(timers) + 1
                   /\ timers'[Len(timers')].kind = "different"
                   /\ timers'[Len(timers')].due = AnswerDelay]_vars

\* while the feedback is set no answer is accepted
C31_NoAnswerDuringFeedback ==
    /\ patternFeedback # "null" => ~ENABLED (\E o \in AllOptions : handlePatternAnswer(o))
    /\ differentFeedback # "null"
          => ~ENABLED (\E x \in 0..(MaxItems - 1) : handleDifferentClick(x))

\* C31: in the pattern and odd-one-out games level L consists of exactly L
\* challenges (the first L table entries, indices 0..L-1): each answered
\* challenge, right or wrong, leads after the feedback delay to the next
\* challenge with the feedback cleared, the coordinator is invoked after the
\* L-th challenge is answered, and while the feedback is set no further answer
\* is accepted.
C31_ChallengesOfLevel ==
    /\ C31_AnswerTaken
    /\ C31_PatternNext
    /\ C31_DifferentNext
    /\ []C31_NoAnswerDuringFeedback

\* a card that is face down and not matched is clicked while one card is selected
SecondFlip(i) ==
    /\ Len(selectedCards) = 1
    /\ ~memoryCards[i].flipped
    /\ ~memoryCards[i].matched
    /\ handleCardClick(i)

\* C32: attempts is changed only by the memory game and by the session reset:
\* it increases by exactly 1 each time a second card is flipped (match or
\* mismatch), startGame and goToMenu set it to 0, and no handler or timer
\* callback of the other five games changes it.
C32_AttemptsOnlyByMemory ==
    [][/\ gameState'.attempts # gameState.attempts
             => \/ /\ lastOp'.op \in {"startGame", "restartGame", "goToMenu"}
                   /\ gameState'.attempts = 0
                \/ /\ gameState.type = "memory"
                   /\ \E i \in 1..Len(memoryCards) : SecondFlip(i)
       /\ \A i \in 1..Len(memoryCards) :
             SecondFlip(i) => gameState'.attempts = gameState.attempts + 1]_vars

\* the second pair flip of a memory session has just been counted
C32_Witness ==
    /\ lastOp.op = "handleCardClick"
    /\ gameState.type = "memory"
    /\ gameState.attempts = 2
    /\ Len(selectedCards) = 2
    /\ Len(timers) = 1
    /\ timers[1].due \in {MatchDelay, NoMatchDelay}

\* the second card flipped has another emoji than the first: one more attempt,
\* the score as it was, and the mismatch timer is started with the two cards
C33_MismatchFlip ==
    [][\A i \in 1..Len(memoryCards) :
          (/\ SecondFlip(i)
           /\ memoryCards[i].emoji # memoryCards[selectedCards[1]].emoji)
             => /\ gameState'.attempts = gameState.attempts + 1
                /\ gameState'.score = gameState.score
                /\ memoryCards'[i].flipped
                /\ selectedCards' = <<selectedCards[1], i>>
                /\ timers'[Len(timers')].kind = "noMatch"
                /\ timers'[Len(timers')].due = NoMatchDelay
                /\ timers'[Len(timers')].first = selectedCards[1]
                /\ timers'[Len(timers')].second = i
                /\ timers'[Len(timers')].cards = memoryCards']_vars

\* the mismatch timer fires: of the grid the cards were flipped in, the two
\* cards are face down again and nothing else has changed; the selection is
\* cleared; score and attempts stay
C33_FlippedBack ==
    [][\A i \in Timers : FireNoMatch(i) =>
          LET t == timers[i]
          IN /\ t.cards[t.first].emoji # t.cards[t.second].emoji
             /\ Len(memoryCards') = Len(t.cards)
             /\ \A k \in 1..Len(t.cards) :
                   memoryCards'[k] = IF k \in {t.first, t.second}
                                     THEN [t.cards[k] EXCEPT !.flipped = FALSE]
                                     ELSE t.cards[k]
             /\ ~memoryCards'[t.first].matched
             /\ ~memoryCards'[t.second].matched
             /\ selectedCards' = <<>>
             /\ UNCHANGED gameState]_vars

\* a click while two cards are selected, or on a card already flipped or
\* matched, changes no state
C33_ClickIgnored ==
    [][\A i \in 1..Len(memoryCards) :
          (/\ handleCardClick(i)
           /\ \/ Len(selectedCards) = 2
              \/ memoryCards[i].flipped
              \/ memoryCards[i].matched)
             => UNCHANGED <<currentScreen, gameState, puzzleVars, modalVars,
                            soundEnabled, timers>>]_vars

\* C33: in the memory game, flipping two cards with different emoji results,
\* after the mismatch timer, in both cards being face down again, the
\* selection cleared, the score unchanged and attempts increased by exactly 1;
\* while two cards are selected, or on a card already flipped or matched, a
\* click changes no state.
C33_Mismatch ==
    /\ C33_MismatchFlip
    /\ C33_FlippedBack
    /\ C33_ClickIgnored

\* the first two cards flipped in the session did not match and are face down
\* again
C33_Witness ==
    /\ lastOp.op = "noMatchTimer"
    /\ gameState = [FreshSession("memory") EXCEPT !.attempts = 1]
    /\ starts = 1
    /\ selectedCards = <<>>
    /\ timers = <<>>
    /\ Len(memoryCards) = 4
    /\ \A k \in 1..Len(memoryCards) : ~memoryCards[k].flipped /\ ~memoryCards[k].matched

\* C34: while the memory game is active the card grid has exactly
\* [4, 6, 12, 16, 20][level - 1] cards for the current level and every emoji
\* in it is on exactly two cards, in every reachable state (also after a
\* restart or a level change with a flip timer pending).
C34_GridOfLevel ==
    (currentScreen = "game" /\ gameState.type = "memory")
        => /\ gameState.level \in 1..Len(gridSizeMap)
           /\ Len(memoryCards) = gridSizeMap[gameState.level]
           /\ \A k \in 1..Len(memoryCards) :
                 Cardinality({j \in 1..Len(memoryCards) :
                                 memoryCards[j].emoji = memoryCards[k].emoji}) = 2

\* p is a prefix of s
IsPrefix(p, s) == Len(p) <= Len(s) /\ \A k \in 1..Len(p) : p[k] = s[k]

\* the sequence init(level) builds has level entries, each a colour id 0..3
C35_SequenceOfLevel ==
    [][simonSequence' # simonSequence
          => /\ Len(simonSequence') = gameState'.level
             /\ \A k \in 1..Len(simonSequence') :
                   simonSequence'[k] \in 0..(NumSimonColors - 1)]_vars

\* the player's entered sequence is a prefix of the sequence to repeat
C35_PlayerIsPrefix ==
    (currentScreen = "game" /\ gameState.type = "simon")
        => IsPrefix(playerSequence, simonSequence)

\* C35: in the colour-repeat game the player's entered sequence is in every
\* reachable state a prefix of the current sequence to repeat (so it is never
\* longer), and the sequence built by init(level) has exactly level entries,
\* each a colour id in 0..3.
C35_SimonSequences ==
    /\ []C35_PlayerIsPrefix
    /\ C35_SequenceOfLevel

\* the first colour of a two-colour sequence has been repeated
C35_Witness ==
    /\ lastOp.op = "handleSimonClick"
    /\ gameState.type = "simon"
    /\ gameState.level = 2
    /\ Len(simonSequence) = 2
    /\ Len(playerSequence) = 1
    /\ playerSequence[1] = simonSequence[1]
    /\ ~isShowingSequence

\* C36: in the memory game the score never exceeds 10 points for each pair
\* flip counted in the session's attempts
C36_ScoreWithinAttempts ==
    (currentScreen = "game" /\ gameState.type = "memory")
        => gameState.score <= ScoreStep * gameState.attempts

\* the pattern game played to its end, with no bound on the player's inputs
PatternNext ==
    \/ Start("pattern")
    \/ GoToMenu
    \/ Restart
    \/ DismissWin
    \/ \E o \in AllOptions : handlePatternAnswer(o)
    \/ \E i \in Timers : FirePattern(i)
    \/ \E i \in Timers : FireAdvance(i)
    \/ Tick

PatternSpec == Init /\ [][PatternNext]_vars

\* C37: the level-complete banner and the win banner are never shown
\* at the same time
C37_OneBannerAtATime == ~(showLevelCompleteModal /\ showWinModal)

====
